---------------------------- MODULE Spec2Model ----------------------------
(***************************************************************************)
(* Model of the /api/analyze request handler of framer-analyse-tool.       *)
(*                                                                         *)
(* The repository holds several releases of the same endpoint.  The model  *)
(* carries six of them, selected by the variable `variant`:                *)
(*   "v1.0"  hybrid PageSpeed + heuristics     src/api/analyze.ts:180-306  *)
(*   "v1.1"  extended hybrid                   src/api/analyze.ts:1-177    *)
(*   "v2.1"  heuristic catalogue, in-process   src/unnamed/part_008        *)
(*           cache and rate limiter                                        *)
(*   "v3.3"  LLM, validated URL, kv cache      src/unnamed/part_000        *)
(*   "v5.0"  LLM, kv rate limit and kv cache   src/unnamed/part_009        *)
(*   "v7.2"  LLM, kv cache, thresholds 2 / 5   src/unnamed/part_003:1-164  *)
(*                                                                         *)
(* Text is modelled as a sequence of fragments (strings); the string the   *)
(* program sees is the concatenation of the fragments.  Regular            *)
(* expressions of the source are evaluated on fragments; the vocabulary    *)
(* is chosen so that no match of the source's expressions straddles a      *)
(* fragment boundary other than the ones the operators below look for.     *)
(***************************************************************************)
EXTENDS Integers, Sequences, FiniteSets, TLC

VARIABLES
    variant,   \* which release of handler is deployed
    cache,     \* result cache: function from cache key (normalised url) to entry
    rate,      \* rate-limit counter per caller ip (0 = key absent)
    rateTtl,   \* kv only: TRUE when the counter key carries an expiry
    req,       \* per request slot: position in handler, locals, effects, response
    served,    \* history: 200 results per caller in the current quota period
    carried,   \* history: requests in flight when their caller's counter key expired
    first      \* history: which of the two promises of a hybrid request settled first

vars == <<variant, cache, rate, rateTtl, req, served, carried, first>>

(***************************************************************************)
(* Bounds of the model.                                                    *)
(***************************************************************************)
NumSlots == 1          \* requests that can be in flight at the same time

\* the request slots of the running deployment
Slots == DOMAIN req
Ips == {"203.0.113.7"}
Variants == {"v1.0", "v1.1", "v2.1", "v3.3", "v5.0", "v7.2"}
KvVariants == {"v3.3", "v5.0", "v7.2"}
RateLimitedVariants == {"v2.1", "v5.0"}
LlmVariants == {"v3.3", "v5.0", "v7.2"}
HybridVariants == {"v1.0", "v1.1"}

(***************************************************************************)
(* Sequence helpers.                                                       *)
(***************************************************************************)
Min(a, b) == IF a < b THEN a ELSE b
Max(a, b) == IF a > b THEN a ELSE b

\* Array.prototype.slice(0, n)
Slice0(s, n) == SubSeq(s, 1, Min(n, Len(s)))

RECURSIVE SumLen(_)
\* Length of the string a fragment sequence stands for.
SumLen(s) == IF s = <<>> THEN 0 ELSE Len(Head(s)) + SumLen(Tail(s))

RECURSIVE Flatten(_)
\* The string a fragment sequence stands for.
Flatten(s) == IF s = <<>> THEN "" ELSE Head(s) \o Flatten(Tail(s))

\* number of fragments of s that are in the set S
Count(s, S) == Cardinality({i \in 1..Len(s) : s[i] \in S})
Has(s, S) == \E i \in 1..Len(s) : s[i] \in S

RECURSIVE Filter(_, _)
\* the fragments of s not in S, in order
Filter(s, S) ==
    IF s = <<>> THEN <<>>
    ELSE IF Head(s) \in S THEN Filter(Tail(s), S)
    ELSE <<Head(s)>> \o Filter(Tail(s), S)

(***************************************************************************)
(* JavaScript numbers that may be undefined or NaN.                        *)
(***************************************************************************)
JsNum(n) == [kind |-> "number", n |-> n]
JsNaN == [kind |-> "NaN", n |-> 0]
JsUndefined == [kind |-> "undefined", n |-> 0]
IsNum(a) == a.kind = "number"
\* a - k
JsMinus(a, k) == IF IsNum(a) THEN JsNum(a.n - k) ELSE JsNaN
\* Math.max(0, a)
JsMax0(a) == IF IsNum(a) THEN JsNum(Max(0, a.n)) ELSE JsNaN
\* a < k  (every comparison with undefined or NaN is false)
JsLt(a, k) == IsNum(a) /\ a.n < k
\* a || 0
JsOrZero(a) == IF IsNum(a) /\ a.n # 0 THEN a ELSE JsNum(0)

(***************************************************************************)
(* URLs.  A url is a sequence of fragments; NoUrl is a body without a url  *)
(* field (undefined).                                                      *)
(***************************************************************************)
NoUrl == <<"undefined">>

Schemes == {"http://", "https://"}
\* fragments that are white space only
Blank == {" ", "\n"}
\* fragments whose text starts with the letters "http"
HttpPrefixed == Schemes \cup {"httpbin"}
\* fragments whose text contains a "."
Dotted == {".", "luqy.studio"}
\* fragments that make a host name unparsable
BadHost == Blank \cup {"a b"}

Urls ==
    { NoUrl,
      <<>>,
      <<" ">>,
      <<"site", ".", "com">>,
      <<"http://", "site", ".", "com">>,
      <<"luqy.studio">>,
      <<"site", ".", "com", "/", "luqy.studio">>,
      <<"httpbin", ".", "org">>,
      <<"a b", ".", "com">> }

\* `url &&` : defined and not the empty string
Truthy(u) == u # NoUrl /\ u # <<>>
\* url.startsWith('http')
StartsWithHttp(u) == u # <<>> /\ Head(u) \in HttpPrefixed
\* url.startsWith('https://')
StartsWithHttps(u) == u # <<>> /\ Head(u) = "https://"
\* url.includes('.')
IncludesDot(u) == Has(u, Dotted)
\* url.includes('luqy.studio')
IsExempt(u) == Has(u, {"luqy.studio"})
\* url.trim() === ''
TrimIsEmpty(u) == \A i \in 1..Len(u) : u[i] \in Blank

\* index of the first "/" after the scheme, or Len + 1
PathStart(u) ==
    IF \E i \in 2..Len(u) : u[i] = "/"
    THEN CHOOSE i \in 2..Len(u) : u[i] = "/" /\ \A j \in 2..(i - 1) : u[j] # "/"
    ELSE Len(u) + 1

\* new URL(url).hostname
Hostname(u) == SubSeq(u, 2, PathStart(u) - 1)

\* new URL(url) does not throw
UrlParses(u) ==
    /\ u # NoUrl
    /\ u # <<>>
    /\ Head(u) \in Schemes
    /\ Hostname(u) # <<>>
    /\ ~Has(Hostname(u), BadHost)

\* if (url && !url.startsWith('http')) { url = 'https://' + url; }
Normalize(u) ==
    IF Truthy(u) /\ ~StartsWithHttp(u) THEN <<"https://">> \o u ELSE u

\* if (!url.startsWith('http')) { url = 'https://' + url; }   (url is a string)
NormalizeString(u) ==
    IF ~StartsWithHttp(u) THEN <<"https://">> \o u ELSE u


(***************************************************************************)
(* Markup.  A page is a sequence of fragments.  For every regular          *)
(* expression of the source, the set of vocabulary fragments containing a  *)
(* match of it.                                                            *)
(***************************************************************************)
H1OpenAnyCase == {"<h1>", "<H1>"}                 \* /<h1/i
H1OpenExact == {"<h1>"}                           \* '<h1'
H1Close == {"</h1>", "</H1>"}                     \* /<\/h1>/i
TitleOpenAnyCase == {"<title>", "<TITLE>"}        \* /<title[^>]*>/i
TitleCloseAnyCase == {"</title>", "</TITLE>"}     \* /<\/title>/i
TitleOpenExact == {"<title>"}                     \* /<title>/
TitleCloseExact == {"</title>"}                   \* /<\/title>/
ButtonOpen == {"<button>"}                        \* /<button/i
ButtonClose == {"</button>"}                      \* /<\/button>/i
InputOpen == {"<input>"}                          \* /<input/
MetaDescription == {"<meta name=\"description\">"}
MetaViewport == {"<meta name=\"viewport\">"}
AutoplayMedia == {"<video autoplay>"}
ParagraphOpen == {"<p>"}
ImgOpen == {"<img>"}
AnchorHref == {"<a href>"}                        \* /<a href/i
AnchorOrAudio == {"<a href>"}                     \* /<a/i
NavOpen == {"<nav>"}
ScriptOpen == {"<script>"}
SearchInput == {"<input type=\"search\">"}
KontaktWords == {"kontakt", "impressum"}          \* /kontakt|impressum|support|hilfe/i
ImpressumWords == {"impressum"}                   \* /impressum/i
DatenschutzWords == {"datenschutz"}               \* /datenschutz|privacy/i
SocialProofWords == {"kundenstimmen"}             \* /kundenstimmen|bewertungen|referenzen|erfahrungen/i
UrgencyWords == {"jetzt"}                         \* /jetzt|sofort|heute|angebot|nur fuer kurze zeit/i
GuaranteeWords == {"garantie"}                    \* /garantie|risikofrei|geld-zurueck|kostenlos testen/i
FontFamilyDecl == {"font-family:"}
ColorDecl == {"color:"}
SmallFontDecl == {"font-size:12px"}               \* /font-size:\s*(10|11|12|13)px/i
PopupWords == {"popup"}                           \* /popup|modal|overlay|cookie-banner/i
CostWords == {"versandkosten"}                    \* /versandkosten|gebuehren|zzgl\./i
FreeShippingWords == {"kostenloser versand"}
RegisterWords == {"registrieren"}                 \* /registrieren|konto erstellen/i
GuestWords == {"gast"}                            \* /gast|ohne anmeldung/i
PaymentWords == {"paypal", "klarna"}              \* /paypal|kreditkarte|klarna|rechnung/i
ErrorPageWords == {"404"}                         \* /404|nicht gefunden|seite nicht gefunden/i
WillkommenTexts == {"Willkommen", "willkommen"}   \* toLowerCase().includes("willkommen")
CopyrightSign == {"(c)"}                          \* the copyright sign
YearTexts == {"2020", "2099"}                     \* \d{4}

\* fragments that are one complete tag: /<[^>]+>/
TagFragments ==
    H1OpenAnyCase \cup H1Close \cup TitleOpenAnyCase \cup TitleCloseAnyCase
    \cup ButtonOpen \cup ButtonClose \cup InputOpen \cup MetaDescription
    \cup MetaViewport \cup AutoplayMedia \cup ParagraphOpen \cup ImgOpen
    \cup AnchorHref \cup NavOpen \cup ScriptOpen \cup SearchInput
    \cup {"<span>", "</span>"}

\* parseInt of a year fragment
YearValue(t) == IF t = "2020" THEN 2020 ELSE 2099

\* text.toLowerCase() of one fragment
LowerFragment(t) ==
    CASE t = "Willkommen" -> "willkommen"
      [] t = "Mehr erfahren" -> "mehr erfahren"
      [] t = "Weiter" -> "weiter"
      [] OTHER -> t

RECURSIVE LowerText(_)
LowerText(s) == IF s = <<>> THEN <<>> ELSE <<LowerFragment(Head(s))>> \o LowerText(Tail(s))

\* a page on which no rule of any release triggers when fetched over https
PageGood ==
    << "<title>", "Umsatz steigern mit System", "</title>",
       "<meta name=\"description\">", "<meta name=\"viewport\">",
       "<h1>", "Mehr Umsatz in 30 Tagen", "</h1>",
       "<p>", "<p>", "<p>", "<p>", "<p>", "<img>",
       "<button>", "Analyse starten", "</button>",
       "impressum", "datenschutz", "kundenstimmen", "jetzt", "garantie",
       "paypal", "klarna" >>

\* PageGood with a generic heading and without social proof
PageWeak ==
    << "<title>", "Umsatz steigern mit System", "</title>",
       "<meta name=\"description\">", "<meta name=\"viewport\">",
       "<h1>", "Willkommen", "</h1>",
       "<p>", "<p>", "<p>", "<p>", "<p>", "<img>",
       "<button>", "Analyse starten", "</button>",
       "impressum", "datenschutz", "jetzt", "garantie",
       "paypal", "klarna" >>

\* PageGood without a guarantee word and with a stale copyright year
PageStale ==
    << "<title>", "Umsatz steigern mit System", "</title>",
       "<meta name=\"description\">", "<meta name=\"viewport\">",
       "<h1>", "Mehr Umsatz in 30 Tagen", "</h1>",
       "<p>", "<p>", "<p>", "<p>", "<p>", "<img>",
       "<button>", "Analyse starten", "</button>",
       "impressum", "datenschutz", "kundenstimmen", "jetzt",
       "paypal", "klarna", "(c)", " ", "2020" >>

PageEmpty == <<>>

\* PageGood with the heading broken over two lines
PageMultiline ==
    << "<title>", "Umsatz steigern mit System", "</title>",
       "<meta name=\"description\">", "<meta name=\"viewport\">",
       "<h1>", "Mehr Umsatz", "\n", "in 30 Tagen", "</h1>",
       "<p>", "<p>", "<p>", "<p>", "<p>", "<img>",
       "<button>", "Analyse starten", "</button>",
       "impressum", "datenschutz", "kundenstimmen", "jetzt", "garantie",
       "paypal", "klarna" >>

\* PageGood with a heading that holds an empty element and no text
PageHollow ==
    << "<title>", "Umsatz steigern mit System", "</title>",
       "<meta name=\"description\">", "<meta name=\"viewport\">",
       "<h1>", "<span>", "</span>", "</h1>",
       "<p>", "<p>", "<p>", "<p>", "<p>", "<img>",
       "<button>", "Analyse starten", "</button>",
       "impressum", "datenschutz", "kundenstimmen", "jetzt", "garantie",
       "paypal", "klarna" >>

Pages == {PageGood, PageWeak, PageStale, PageEmpty, PageMultiline, PageHollow}

\* new Date().getFullYear(): the years the clock may show
ClockYears == {2020, 2021}

(***************************************************************************)
(* v2.1: the catalogue conversionKillers and its check functions.          *)
(***************************************************************************)
\* (text.match(pattern) || []).length for a pattern matching inside fragments of S
countOccurrences(content, S) == Count(content, S)

\* content.indexOf('<h1'): offset of the first fragment holding it, or -1
IndexOfH1(content) ==
    IF ~Has(content, H1OpenExact) THEN -1
    ELSE LET i == CHOOSE i \in 1..Len(content) :
                    /\ content[i] \in H1OpenExact
                    /\ \A j \in 1..(i - 1) : content[j] \notin H1OpenExact
         IN SumLen(SubSeq(content, 1, i - 1))

\* an open fragment at i and a close fragment at j > i with no line break between
SpansLine(content, i, j) == \A k \in (i + 1)..(j - 1) : content[k] # "\n"

RECURSIVE NavLinkCount(_, _)
\* number of non-overlapping matches of /<nav[^>]*>.*?<a/gi from fragment p on
NavLinkCount(content, p) ==
    LET starts == {i \in p..Len(content) :
                      /\ content[i] \in NavOpen
                      /\ \E j \in (i + 1)..Len(content) :
                            content[j] \in AnchorOrAudio /\ SpansLine(content, i, j)}
    IN IF starts = {} THEN 0
       ELSE LET i == CHOOSE i \in starts : \A k \in starts : i <= k
                ends == {j \in (i + 1)..Len(content) :
                            content[j] \in AnchorOrAudio /\ SpansLine(content, i, j)}
                j == CHOOSE j \in ends : \A k \in ends : j <= k
            IN 1 + NavLinkCount(content, j + 1)

\* /<title>.*<\/title>/.test(content)
HasTitleExact(content) ==
    \E i \in 1..Len(content) : \E j \in (i + 1)..Len(content) :
        /\ content[i] \in TitleOpenExact
        /\ content[j] \in TitleCloseExact
        /\ SpansLine(content, i, j)

conversionKillers ==
    << [id |-> "SSL", title |-> "Fehlendes Vertrauen (Kein SSL/HTTPS)"],
       [id |-> "AUTO_MEDIA", title |-> "Automatisch startende Medieninhalte"],
       [id |-> "VALUE_PROP", title |-> "Unklares Nutzenversprechen"],
       [id |-> "CTA", title |-> "Schwache oder unklare Handlungsaufforderungen"],
       [id |-> "LANGE_FORMULARE", title |-> "Lange und komplexe Formulare"],
       [id |-> "KONTAKT", title |-> "Schwer auffindbare Kontakt- oder Support-Moeglichkeiten"],
       [id |-> "SOCIAL_PROOF", title |-> "Fehlender sozialer Beweis (Social Proof)"],
       [id |-> "HANDLUNGSIMPULS", title |-> "Fehlender Handlungsimpuls (Dringlichkeit)"],
       [id |-> "GARANTIEN", title |-> "Fehlende Garantien oder unklare Risikoumkehr"],
       [id |-> "VISUELLES_DURCHEINANDER", title |-> "Visuelles Durcheinander und Design"],
       [id |-> "ABLENKUNGEN", title |-> "Zu viele Ablenkungen"],
       [id |-> "UNTERBRECHUNGEN", title |-> "Aufdringliche und stoerende Unterbrechungen"],
       [id |-> "NAVIGATION", title |-> "Komplizierte oder unuebersichtliche Navigation"],
       [id |-> "LADEZEIT", title |-> "Langsame Ladezeiten"],
       [id |-> "MOBILE_UX", title |-> "Schlechte mobile Nutzererfahrung"],
       [id |-> "LESBARKEIT", title |-> "Schlechte Lesbarkeit"],
       [id |-> "ANGEBOTSBESCHREIBUNG", title |-> "Unzureichende Angebotsbeschreibung"],
       [id |-> "VISUELLE_PRAESENTATION", title |-> "Schlechte visuelle Praesentation des Angebots"],
       [id |-> "SICHTBARKEIT", title |-> "Wichtige Inhalte nicht sofort sichtbar"],
       [id |-> "NACHTEILE", title |-> "Unerwartete Nachteile oder Kosten"],
       [id |-> "ANMELDUNG", title |-> "Erzwungener Anmelde- oder Registrierungsprozess"],
       [id |-> "INTERNE_SUCHE", title |-> "Eine schlecht funktionierende interne Suche"],
       [id |-> "ABSCHLUSSOPTIONEN", title |-> "Mangel an relevanten Abschlussoptionen"],
       [id |-> "INKONSISTENTES_MESSAGING", title |-> "Inkonsistentes Messaging"],
       [id |-> "FEHLERSEITEN", title |-> "Fehlerseiten und defekte Links"] >>

\* killer.check(content, url) of the catalogue entry with this id
KillerCheck(id, content, url) ==
    CASE id = "SSL" -> ~StartsWithHttps(url)
      [] id = "AUTO_MEDIA" -> Has(content, AutoplayMedia)
      [] id = "VALUE_PROP" -> ~Has(content, H1OpenAnyCase)
      [] id = "CTA" -> countOccurrences(content, ButtonOpen) = 0
      [] id = "LANGE_FORMULARE" -> countOccurrences(content, InputOpen \cup SearchInput) > 6
      [] id = "KONTAKT" -> ~Has(content, KontaktWords)
      [] id = "SOCIAL_PROOF" -> ~Has(content, SocialProofWords)
      [] id = "HANDLUNGSIMPULS" -> ~Has(content, UrgencyWords)
      [] id = "GARANTIEN" -> ~Has(content, GuaranteeWords)
      [] id = "VISUELLES_DURCHEINANDER" ->
            \/ countOccurrences(content, FontFamilyDecl) > 5
            \/ countOccurrences(content, ColorDecl) > 20
      [] id = "ABLENKUNGEN" -> countOccurrences(content, AnchorHref) > 100
      [] id = "UNTERBRECHUNGEN" -> Has(content, PopupWords)
      [] id = "NAVIGATION" -> NavLinkCount(content, 1) > 20
      [] id = "LADEZEIT" -> SumLen(content) > 2000000
      [] id = "MOBILE_UX" -> ~Has(content, MetaViewport)
      [] id = "LESBARKEIT" -> countOccurrences(content, SmallFontDecl) > 3
      [] id = "ANGEBOTSBESCHREIBUNG" -> countOccurrences(content, ParagraphOpen) < 5
      [] id = "VISUELLE_PRAESENTATION" -> countOccurrences(content, ImgOpen) = 0
      [] id = "SICHTBARKEIT" -> IndexOfH1(content) > 3000
      [] id = "NACHTEILE" -> Has(content, CostWords) /\ ~Has(content, FreeShippingWords)
      [] id = "ANMELDUNG" -> Has(content, RegisterWords) /\ ~Has(content, GuestWords)
      [] id = "INTERNE_SUCHE" ->
            Has(content, SearchInput) /\ countOccurrences(content, ScriptOpen) < 5
      [] id = "ABSCHLUSSOPTIONEN" -> countOccurrences(content, PaymentWords) < 2
      [] id = "INKONSISTENTES_MESSAGING" ->
            ~HasTitleExact(content) \/ ~Has(content, MetaDescription)
      [] id = "FEHLERSEITEN" -> Has(content, ErrorPageWords)

RECURSIVE FilterKillers(_, _, _)
\* conversionKillers.filter(killer => killer.check(content, url)).map(killer => killer.title)
FilterKillers(catalogue, content, url) ==
    IF catalogue = <<>> THEN <<>>
    ELSE (IF KillerCheck(Head(catalogue).id, content, url)
          THEN <<Head(catalogue).title>> ELSE <<>>)
         \o FilterKillers(Tail(catalogue), content, url)

\* a ranking other than the declaration order: the catalogue read backwards
foundKillersReversed(content, url) ==
    FilterKillers([i \in 1..Len(conversionKillers) |->
                      conversionKillers[Len(conversionKillers) + 1 - i]],
                  content, url)
foundKillersV21(content, url) == FilterKillers(conversionKillers, content, url)

(***************************************************************************)
(* v1.0 / v1.1: runHeuristicChecks.                                        *)
(***************************************************************************)
Killer(t, tmpl, arg) == [title |-> t, detail |-> [tmpl |-> tmpl, arg |-> arg]]

RECURSIVE TrimLeft(_)
TrimLeft(s) == IF s # <<>> /\ Head(s) \in Blank THEN TrimLeft(Tail(s)) ELSE s

RECURSIVE TrimRight(_)
TrimRight(s) ==
    IF s # <<>> /\ s[Len(s)] \in Blank THEN TrimRight(SubSeq(s, 1, Len(s) - 1)) ELSE s

RECURSIVE CollapseBlank(_)
\* .replace(/\s+/g, ' ')
CollapseBlank(s) ==
    IF s = <<>> THEN <<>>
    ELSE IF Head(s) \in Blank
         THEN <<" ">> \o CollapseBlank(TrimLeft(s))
         ELSE <<Head(s)>> \o CollapseBlank(Tail(s))

\* text.trim().replace(/<[^>]+>/g, '').replace(/\s+/g, ' ')
cleanText(text) == CollapseBlank(Filter(TrimRight(TrimLeft(text)), TagFragments))

NoMatch == [found |-> FALSE, whole |-> <<>>, cap |-> <<>>, next |-> 0]

\* content.match(/<open[^>]*>(.*?)<\/close>/i) searched from fragment p on:
\* leftmost open fragment that has a close fragment after it on the same line,
\* and the nearest such close fragment
MatchFrom(content, Open, Close, p) ==
    LET starts == {i \in p..Len(content) :
                      /\ content[i] \in Open
                      /\ \E j \in (i + 1)..Len(content) :
                            content[j] \in Close /\ SpansLine(content, i, j)}
    IN IF starts = {} THEN NoMatch
       ELSE LET i == CHOOSE i \in starts : \A k \in starts : i <= k
                ends == {j \in (i + 1)..Len(content) :
                            content[j] \in Close /\ SpansLine(content, i, j)}
                j == CHOOSE j \in ends : \A k \in ends : j <= k
            IN [found |-> TRUE, whole |-> SubSeq(content, i, j),
                cap |-> SubSeq(content, i + 1, j - 1), next |-> j + 1]

RECURSIVE AllMatches(_, _, _, _)
\* content.match(/.../ig): the whole text of every match, left to right
AllMatches(content, Open, Close, p) ==
    LET m == MatchFrom(content, Open, Close, p)
    IN IF ~m.found THEN <<>>
       ELSE <<m.whole>> \o AllMatches(content, Open, Close, m.next)

GenericCTAs == {"mehr erfahren", "klicken sie hier", "weiter", "absenden"}

\* ["mehr erfahren", ...].includes(text.toLowerCase())
IsGenericCTA(text) == Flatten(LowerText(text)) \in GenericCTAs

RECURSIVE SelectGeneric(_)
\* buttonMatch.filter(btn => generic(cleanText(btn)))
SelectGeneric(btns) ==
    IF btns = <<>> THEN <<>>
    ELSE (IF IsGenericCTA(cleanText(Head(btns))) THEN <<Head(btns)>> ELSE <<>>)
         \o SelectGeneric(Tail(btns))

\* content.match(/(c)\s*(\d{4})/): the year fragment of the first match
YearMatch(content) ==
    LET hits == {i \in 1..Len(content) :
                    /\ content[i] \in CopyrightSign
                    /\ \E j \in (i + 1)..Len(content) :
                          /\ content[j] \in YearTexts
                          /\ \A k \in (i + 1)..(j - 1) : content[k] \in Blank}
    IN IF hits = {} THEN [found |-> FALSE, year |-> ""]
       ELSE LET i == CHOOSE i \in hits : \A k \in hits : i <= k
                j == CHOOSE j \in (i + 1)..Len(content) :
                        /\ content[j] \in YearTexts
                        /\ \A k \in (i + 1)..(j - 1) : content[k] \in Blank
            IN [found |-> TRUE, year |-> content[j]]

MinH1Length == 15
MinTitleLength == 10
MaxInputs == 6

\* the h1 block shared by v1.0 and v1.1; suffix distinguishes the titles
H1Killers(content, suffix) ==
    LET h1Match == MatchFrom(content, H1OpenAnyCase, H1Close, 1)
        text == cleanText(h1Match.cap)
    IN IF ~h1Match.found \/ h1Match.cap = <<>>
       THEN <<Killer("Fehlendes Nutzenversprechen" \o suffix, "h1-missing", <<>>)>>
       ELSE IF SumLen(text) < MinH1Length \/ Has(LowerText(text), {"willkommen"})
            THEN <<Killer("Schwaches Nutzenversprechen" \o suffix, "h1-weak", text)>>
            ELSE <<>>

\* v1.1 runHeuristicChecks(content, url); year is new Date().getFullYear()
runHeuristicChecksV11(content, url, year) ==
    LET titleMatch == MatchFrom(content, TitleOpenAnyCase, TitleCloseAnyCase, 1)
        buttonMatch == AllMatches(content, ButtonOpen, ButtonClose, 1)
        genericCTAs == SelectGeneric(buttonMatch)
        yearMatch == YearMatch(content)
        inputCount == Count(content, InputOpen \cup SearchInput)
    IN H1Killers(content, " (H1)")
       \o (IF ~titleMatch.found \/ titleMatch.cap = <<>>
              \/ SumLen(cleanText(titleMatch.cap)) < MinTitleLength
           THEN <<Killer("Fehlender oder schwacher Seitentitel", "title", <<>>)>>
           ELSE <<>>)
       \o (IF ~Has(content, MetaDescription)
           THEN <<Killer("Fehlende Meta-Beschreibung", "meta-description", <<>>)>>
           ELSE <<>>)
       \o (IF buttonMatch = <<>>
           THEN <<Killer("Fehlender Call-to-Action Button", "cta-missing", <<>>)>>
           ELSE IF Len(genericCTAs) > 0
                THEN <<Killer("Generische Call-to-Action Texte", "cta-generic",
                              cleanText(genericCTAs[1]))>>
                ELSE <<>>)
       \o (IF ~StartsWithHttps(url)
           THEN <<Killer("Unsichere Verbindung (Kein SSL)", "ssl", <<>>)>>
           ELSE <<>>)
       \o (IF ~Has(content, ImpressumWords)
           THEN <<Killer("Fehlendes Impressum", "impressum", <<>>)>>
           ELSE <<>>)
       \o (IF ~Has(content, DatenschutzWords)
           THEN <<Killer("Fehlende Datenschutzerklaerung", "datenschutz", <<>>)>>
           ELSE <<>>)
       \o (IF yearMatch.found /\ YearValue(yearMatch.year) < year
           THEN <<Killer("Veraltetes Copyright-Jahr", "copyright", <<yearMatch.year>>)>>
           ELSE <<>>)
       \o (IF ~Has(content, SocialProofWords)
           THEN <<Killer("Fehlender sozialer Beweis", "social-proof", <<>>)>>
           ELSE <<>>)
       \o (IF inputCount > MaxInputs
           THEN <<Killer("Langes Formular", "long-form", <<ToString(inputCount)>>)>>
           ELSE <<>>)
       \o (IF Has(content, AutoplayMedia)
           THEN <<Killer("Automatisch startende Medien", "autoplay", <<>>)>>
           ELSE <<>>)

\* v1.0 runHeuristicChecks(content, url)
runHeuristicChecksV10(content, url) ==
    LET buttonMatch == MatchFrom(content, ButtonOpen, ButtonClose, 1)
        text == cleanText(buttonMatch.cap)
    IN H1Killers(content, "")
       \o (IF ~buttonMatch.found \/ buttonMatch.cap = <<>>
           THEN <<Killer("Fehlende Handlungsaufforderung", "cta-missing", <<>>)>>
           ELSE IF IsGenericCTA(text)
                THEN <<Killer("Schwache Handlungsaufforderung", "cta-weak", text)>>
                ELSE <<>>)
       \o (IF ~Has(content, ImpressumWords)
           THEN <<Killer("Fehlendes Impressum", "impressum", <<>>)>>
           ELSE <<>>)
       \o (IF ~StartsWithHttps(url)
           THEN <<Killer("Unsichere Verbindung (Kein SSL)", "ssl", <<>>)>>
           ELSE <<>>)

runHeuristicChecks(v, content, url, year) ==
    IF v = "v1.1" THEN runHeuristicChecksV11(content, url, year)
    ELSE runHeuristicChecksV10(content, url)

(***************************************************************************)
(* v1.0 / v1.1: runPageSpeedChecks.  An answer of the PageSpeed service:   *)
(* net is "throw" (fetch rejects), "notok" (response.ok false) or "ok";    *)
(* has is the set of paths present in the payload; scores are percentages  *)
(* (score * 100).                                                          *)
(***************************************************************************)
PsAnswer(net, has, perf, viewport, access) ==
    [net |-> net, has |-> has, perf |-> perf, viewport |-> viewport, access |-> access]

PsAll == {"performance", "viewport", "accessibility"}

PsAnswers ==
    { PsAnswer("throw", {}, 0, 0, 0),
      PsAnswer("notok", {}, 0, 0, 0),
      PsAnswer("ok", PsAll, 95, 1, 90),
      PsAnswer("ok", PsAll, 70, 1, 90),
      PsAnswer("ok", PsAll, 30, 0, 70),
      PsAnswer("ok", {"performance"}, 30, 0, 0),
      PsAnswer("ok", {"performance", "accessibility"}, 30, 0, 70),
      PsAnswer("ok", {}, 0, 0, 0) }

PerfCritical == 50
PerfModerate == 90
AccessibilityLow == 80

\* the performance block
PsPerformance(a) ==
    IF a.perf < PerfCritical
    THEN <<Killer("Langsame Ladezeiten", "perf-critical", <<ToString(a.perf)>>)>>
    ELSE IF a.perf < PerfModerate
         THEN <<Killer("Maessige Ladezeiten", "perf-moderate", <<ToString(a.perf)>>)>>
         ELSE <<>>

\* the viewport block
PsViewport(a) ==
    IF a.viewport # 1
    THEN <<Killer("Mangelnde Mobiloptimierung", "viewport", <<>>)>>
    ELSE <<>>

\* the accessibility block (v1.1 only)
PsAccessibility(a) ==
    IF a.access < AccessibilityLow
    THEN <<Killer("Mangelnde Barrierefreiheit", "accessibility", <<ToString(a.access)>>)>>
    ELSE <<>>

\* runPageSpeedChecks(url): a missing path throws a TypeError inside the try
\* block, and the catch returns what was found up to there
runPageSpeedChecks(v, a) ==
    IF a.net # "ok" THEN <<>>
    ELSE IF "performance" \notin a.has THEN <<>>
    ELSE IF "viewport" \notin a.has THEN PsPerformance(a)
    ELSE IF v = "v1.0" THEN PsPerformance(a) \o PsViewport(a)
    ELSE IF "accessibility" \notin a.has THEN PsPerformance(a) \o PsViewport(a)
    ELSE PsPerformance(a) \o PsViewport(a) \o PsAccessibility(a)

(***************************************************************************)
(* Results, responses and the request record.                              *)
(***************************************************************************)
\* message template with the interpolated host name and count
Msg(tmpl, host, count) == [tmpl |-> tmpl, host |-> host, count |-> count]
NoMsg == Msg("", <<>>, JsUndefined)

\* a JSON body: fields is the set of keys present
Res(fields, special, note, msg, top, rem) ==
    [fields |-> fields, isSpecialCase |-> special, specialNote |-> note,
     message |-> msg, topKillers |-> top, remainingKillers |-> rem]
NoResult == Res({}, FALSE, "", NoMsg, <<>>, JsUndefined)

\* { message: text }
ErrorBody(text) == Res({"message"}, FALSE, "", Msg(text, <<>>, JsUndefined), <<>>, JsUndefined)

\* { isSpecialCase: true, specialNote: note }
SpecialBody(note) == Res({"isSpecialCase", "specialNote"}, TRUE, note, NoMsg, <<>>, JsUndefined)

\* { message, topKillers, remainingKillers }
AnalysisBody(msg, top, rem) ==
    Res({"message", "topKillers", "remainingKillers"}, FALSE, "", msg, top, rem)

NoResp == [kind |-> "none", status |-> 0, body |-> NoResult]

Idle ==
    [pc |-> "idle", url |-> <<>>, ip |-> "none", userRequests |-> 0,
     fromCache |-> FALSE, contentDone |-> FALSE, content |-> <<>>,
     psDone |-> FALSE, ps |-> <<>>, triggered |-> <<>>, totalFound |-> JsUndefined,
     final |-> NoResult, resp |-> NoResp, io |-> {}]

\* the request record after `let { url } = req.body` and the url rewrite
Arrived(url, ip) == [Idle EXCEPT !.pc = "start", !.url = url, !.ip = ip]

\* res.status(status).json(body)
Done(q, status, body) ==
    [q EXCEPT !.pc = "done", !.resp = [kind |-> "json", status |-> status, body |-> body]]

\* res.status(200).end()
Ended(q) ==
    [q EXCEPT !.pc = "done", !.resp = [kind |-> "end", status |-> 200, body |-> NoResult]]

\* an exception leaves handler: the handler itself sends no response
Unhandled(q, err) ==
    [q EXCEPT !.pc = "done",
              !.resp = [kind |-> "unhandled", status |-> 0, body |-> ErrorBody(err)]]

\* the next await of handler: position pc, effect op started
Await(q, pc, ops) == [q EXCEPT !.pc = pc, !.io = @ \cup ops]

Methods == {"POST", "OPTIONS", "GET"}

\* the method checks every release starts with; TRUE when the request is over
MethodHandled(m) == m # "POST"
MethodResponse(q, m) ==
    IF m = "OPTIONS" THEN Ended(q)
    ELSE Done(q, 405, ErrorBody("Nur POST-Anfragen erlaubt."))

InvalidUrlText == "Bitte gib eine gueltige URL ein."
NoUrlText == "Bitte gib eine URL ein."
BadFormatText == "Das Format der URL ist ungueltig."
ExemptNote == "Natuerlich eine 10/10 Landing Page ;)"
ExemptNoteV33 == "Diese Landing Page ist offensichtlich perfekt."
TypeErrorText == "TypeError: Cannot read properties of undefined"
KvErrorText == "kv request failed"

\* the cache as a function from key to entry
CacheKeys == {Normalize(u) : u \in Urls}
NoEntry == [present |-> FALSE, fresh |-> FALSE, data |-> NoResult]
Entry(data) == [present |-> TRUE, fresh |-> TRUE, data |-> data]
\* v2.1: cache.has(url) && (Date.now() - cache.get(url).timestamp < 7 days)
\* kv: kv.get(cacheKey) returns a value
CacheHit(k) == cache[k].present /\ cache[k].fresh

RateLimit == 2

\* History: served[i] counts the 200 responses with a result (fresh or from
\* the cache, not the exempt one) that caller i got from a rate-limited
\* release since the caller's counter key last expired.  A request in flight
\* when the key expires belongs to the period it started in (carried).
NewlyServed(i) ==
    {r \in Slots :
        /\ req[r].pc # "done"
        /\ req'[r].pc = "done"
        /\ r \notin carried
        /\ req'[r].ip = i
        /\ req'[r].resp.kind = "json"
        /\ req'[r].resp.status = 200
        /\ ~IsExempt(req'[r].url)}
Tally ==
    /\ served' = [i \in Ips |->
                    IF variant \in RateLimitedVariants
                    THEN served[i] + Cardinality(NewlyServed(i))
                    ELSE served[i]]
    /\ carried' = {r \in carried : req'[r].pc \notin {"idle", "done"}}
    /\ first' = [r \in Slots |->
                   IF req'[r].pc = "idle" THEN "none"
                   ELSE IF first[r] # "none" THEN first[r]
                   ELSE IF req'[r].psDone THEN "pagespeed"
                   ELSE IF req'[r].contentDone /\ variant \in HybridVariants THEN "page"
                   ELSE "none"]

Init ==
    /\ variant \in Variants
    /\ cache = [k \in CacheKeys |-> NoEntry]
    /\ rate = [i \in Ips |-> 0]
    /\ rateTtl = [i \in Ips |-> FALSE]
    /\ req = [r \in 1..NumSlots |-> Idle]
    /\ served = [i \in Ips |-> 0]
    /\ carried = {}
    /\ first = [r \in DOMAIN req |-> "none"]

(***************************************************************************)
(* v1.0 and v1.1 (src/api/analyze.ts): hybrid PageSpeed + heuristics.      *)
(***************************************************************************)
PositiveHybrid(url) ==
    AnalysisBody(Msg("Sehr gut! kaum Schwachstellen", Hostname(url), JsUndefined),
                 << Killer("Solide technische Basis", "positive", <<>>),
                    Killer("Gute Inhaltsstruktur", "positive", <<>>) >>,
                 JsNum(0))

HybridErrorText == "Die Seite konnte nicht analysiert werden."

\* v1.1 lines 130-149
StartV11(r, m, u, ip) ==
    /\ variant = "v1.1"
    /\ req[r].pc = "idle"
    /\ LET url == Normalize(u)
           q == Arrived(url, ip)
       IN req' = [req EXCEPT ![r] =
            IF MethodHandled(m) THEN MethodResponse(q, m)
            ELSE IF ~Truthy(url) \/ ~IncludesDot(url)
                 THEN Done(q, 400, ErrorBody(InvalidUrlText))
            ELSE IF IsExempt(url) THEN Done(q, 200, SpecialBody(ExemptNote))
            ELSE Await(q, "fetch", {"page.fetch", "pagespeed"})]
    /\ UNCHANGED <<variant, cache, rate, rateTtl>>
    /\ Tally

\* v1.0 lines 266-281: no validation of url
StartV10(r, m, u, ip) ==
    /\ variant = "v1.0"
    /\ req[r].pc = "idle"
    /\ LET url == Normalize(u)
           q == Arrived(url, ip)
       IN req' = [req EXCEPT ![r] =
            IF MethodHandled(m) THEN MethodResponse(q, m)
            ELSE IF url = NoUrl THEN Unhandled(q, TypeErrorText)
            ELSE IF IsExempt(url) THEN Done(q, 200, SpecialBody(ExemptNote))
            ELSE Await(q, "fetch", {"page.fetch", "pagespeed"})]
    /\ UNCHANGED <<variant, cache, rate, rateTtl>>
    /\ Tally

\* lines 153-171 (v1.1), 284-301 (v1.0): both promises have resolved
ComposeHybrid(q, year) ==
    LET heuristicKillers == runHeuristicChecks(variant, q.content, q.url, year)
        allKillers == q.ps \o heuristicKillers
        q1 == [q EXCEPT !.triggered = allKillers, !.totalFound = JsNum(Len(allKillers)),
                        !.io = @ \cup {"rules"}]
    IN IF Len(allKillers) < 2
       THEN Done(q1, 200, PositiveHybrid(q.url))
       ELSE Done(q1, 200,
                 AnalysisBody(Msg("aktuell N Conversion-Killer. Darunter:",
                                  Hostname(q.url), JsNum(Len(allKillers))),
                              Slice0(allKillers, 2),
                              JsNum(Max(0, Len(allKillers) - 2))))

FetchOutcomes == {"ok", "notok", "throw"}

\* fetch(url) can only answer for a url it can parse
CanAnswer(url, outcome) == outcome = "throw" \/ UrlParses(url)

\* rawContentPromise settles (lines 145-148 / 277-280)
PageSettlesHybrid(r, outcome, page, year) ==
    /\ variant \in HybridVariants
    /\ req[r].pc = "fetch"
    /\ ~req[r].contentDone
    /\ CanAnswer(req[r].url, outcome)
    /\ LET q == [req[r] EXCEPT !.contentDone = TRUE, !.content = page]
       IN req' = [req EXCEPT ![r] =
            IF outcome # "ok" THEN Done(req[r], 500, ErrorBody(HybridErrorText))
            ELSE IF q.psDone THEN ComposeHybrid(q, year)
            ELSE q]
    /\ UNCHANGED <<variant, cache, rate, rateTtl>>
    /\ Tally

\* a merge in the order of arrival: the PageSpeed defects go behind the
\* defects of the markup when the page was there first
PageSpeedSettlesInArrivalOrder(r, answer, year) ==
    /\ variant \in HybridVariants
    /\ req[r].pc = "fetch"
    /\ ~req[r].psDone
    /\ LET q == [req[r] EXCEPT !.psDone = TRUE, !.ps = runPageSpeedChecks(variant, answer)]
           allKillers == runHeuristicChecks(variant, q.content, q.url, year) \o q.ps
           q1 == [q EXCEPT !.triggered = allKillers, !.totalFound = JsNum(Len(allKillers)),
                           !.io = @ \cup {"rules"}]
       IN req' = [req EXCEPT ![r] =
            IF ~q.contentDone THEN q
            ELSE IF Len(allKillers) < 2 THEN Done(q1, 200, PositiveHybrid(q.url))
            ELSE Done(q1, 200,
                      AnalysisBody(Msg("aktuell N Conversion-Killer. Darunter:",
                                       Hostname(q.url), JsNum(Len(allKillers))),
                                   Slice0(allKillers, 2),
                                   JsNum(Max(0, Len(allKillers) - 2))))]
    /\ UNCHANGED <<variant, cache, rate, rateTtl>>
    /\ Tally

\* pageSpeedPromise settles (it never rejects)
PageSpeedSettles(r, answer, year) ==
    /\ variant \in HybridVariants
    /\ req[r].pc = "fetch"
    /\ ~req[r].psDone
    /\ LET q == [req[r] EXCEPT !.psDone = TRUE, !.ps = runPageSpeedChecks(variant, answer)]
       IN req' = [req EXCEPT ![r] =
            IF q.contentDone THEN ComposeHybrid(q, year) ELSE q]
    /\ UNCHANGED <<variant, cache, rate, rateTtl>>
    /\ Tally

(***************************************************************************)
(* v2.1 (src/unnamed/part_008): heuristic catalogue with the in-process    *)
(* maps cache and rateLimiter.                                             *)
(***************************************************************************)
ExemptBodyV21(url) ==
    Res({"message", "topKillers", "remainingKillers", "isSpecialCase", "specialNote"},
        TRUE, ExemptNote, Msg("Die Analyse ist abgeschlossen.", Hostname(url), JsUndefined),
        <<"Perfektion", "Genialitaet">>, JsNum(0))

PositiveV21(url) ==
    AnalysisBody(Msg("Sehr gut! kaum Schwachstellen", Hostname(url), JsUndefined),
                 <<"Saubere Struktur", "Klares Design">>, JsNum(0))

LimitTextV21 == "Analyse-Limit fuer heute erreicht."
TimeoutTextV21 == "Die Seite hat zu lange zum Laden gebraucht."

\* if (userRequests >= 2): part_008 line 89, part_009 line 54
OverLimitStrict(userRequests) == userRequests > RateLimit
OverLimit(userRequests) == userRequests >= RateLimit

\* lines 59-102: everything up to `await fetch(url, ...)`
StartV21(r, m, u, ip) ==
    /\ variant = "v2.1"
    /\ req[r].pc = "idle"
    /\ LET url == Normalize(u)
           q == Arrived(url, ip)
           userRequests == rate[ip]
           q1 == [q EXCEPT !.userRequests = userRequests, !.io = @ \cup {"rate.read"}]
           q2 == [q1 EXCEPT !.io = @ \cup {"cache.read"}]
       IN IF MethodHandled(m)
          THEN req' = [req EXCEPT ![r] = MethodResponse(q, m)] /\ UNCHANGED rate
          ELSE IF ~Truthy(url) \/ ~IncludesDot(url)
          THEN req' = [req EXCEPT ![r] = Done(q, 400, ErrorBody(InvalidUrlText))]
               /\ UNCHANGED rate
          ELSE IF IsExempt(url)
          THEN req' = [req EXCEPT ![r] =
                          IF UrlParses(url) THEN Done(q, 200, ExemptBodyV21(url))
                          ELSE Unhandled(q, "TypeError: Invalid URL")]
               /\ UNCHANGED rate
          ELSE IF OverLimit(userRequests)
          THEN req' = [req EXCEPT ![r] = Done(q1, 429, ErrorBody(LimitTextV21))]
               /\ UNCHANGED rate
          ELSE IF CacheHit(url)
          THEN /\ rate' = [rate EXCEPT ![ip] = userRequests + 1]
               /\ req' = [req EXCEPT ![r] =
                            Done([q2 EXCEPT !.fromCache = TRUE, !.io = @ \cup {"rate.write"}],
                                 200, cache[url].data)]
          ELSE req' = [req EXCEPT ![r] = Await(q2, "fetch", {"page.fetch"})]
               /\ UNCHANGED rate
    /\ UNCHANGED <<variant, cache, rateTtl>>
    /\ Tally

\* lines 110-135: the page text is there
ComposeV21(q) ==
    LET foundKillers == foundKillersV21(q.content, q.url)
        topKillers == Slice0(foundKillers, 2)
    IN IF Len(foundKillers) < 2
       THEN PositiveV21(q.url)
       ELSE AnalysisBody(Msg("aktuell N Conversion-Killer. Darunter:",
                             Hostname(q.url), JsNum(Len(foundKillers))),
                         topKillers, JsNum(Max(0, Len(foundKillers) - 2)))

\* lines 102-142: `await fetch` settles; "timeout" is the abort after 5000 ms
FetchSettlesV21(r, outcome, page) ==
    /\ variant = "v2.1"
    /\ req[r].pc = "fetch"
    /\ outcome \in FetchOutcomes \cup {"timeout"}
    /\ outcome \in {"ok", "notok"} => UrlParses(req[r].url)
    /\ LET q == [req[r] EXCEPT !.contentDone = TRUE, !.content = page,
                               !.triggered = foundKillersV21(page, req[r].url),
                               !.totalFound = JsNum(Len(foundKillersV21(page, req[r].url))),
                               !.io = @ \cup {"rules", "cache.write", "rate.write"}]
           resultData == ComposeV21(q)
       IN IF outcome = "ok"
          THEN /\ cache' = [cache EXCEPT ![q.url] = Entry(resultData)]
               /\ rate' = [rate EXCEPT ![q.ip] = q.userRequests + 1]
               /\ req' = [req EXCEPT ![r] = Done([q EXCEPT !.final = resultData], 200, resultData)]
          ELSE /\ req' = [req EXCEPT ![r] =
                            Done(req[r], 500,
                                 ErrorBody(IF outcome = "timeout" THEN TimeoutTextV21
                                           ELSE HybridErrorText))]
               /\ UNCHANGED <<cache, rate>>
    /\ UNCHANGED <<variant, rateTtl>>
    /\ Tally

(***************************************************************************)
(* The LLM releases v3.3 (part_000), v5.0 (part_009), v7.2 (part_003).     *)
(* An answer of the LLM service: net as for a fetch; shape is what the     *)
(* response carries ("json": a JSON object as text, "fenced": the same in  *)
(* a markdown fence, "nocandidates", "notext", "nojson", "badjson");       *)
(* total and top are the fields of the JSON object.                        *)
(***************************************************************************)
LlmKillers ==
    << Killer("Besucher verstehen den Nutzen nicht", "llm", <<>>),
       Killer("Unklare Handlungsaufforderung", "llm", <<>>),
       Killer("Besucher fuehlen sich unsicher", "llm", <<>>) >>

Top(def, n) == [def |-> def, list |-> SubSeq(LlmKillers, 1, n)]

LlmAnswer(net, shape, total, top) ==
    [net |-> net, shape |-> shape, total |-> total, top |-> top]

\* the JSON objects the model may answer with: (totalFound, topKillers)
Payloads ==
    { <<JsNum(0), Top(TRUE, 0)>>,
      <<JsNum(1), Top(TRUE, 1)>>,
      <<JsNum(1), Top(TRUE, 3)>>,
      <<JsNum(3), Top(TRUE, 3)>>,
      <<JsNum(3), Top(TRUE, 0)>>,
      <<JsNum(3), Top(FALSE, 0)>>,
      <<JsNum(4), Top(TRUE, 3)>>,
      <<JsNum(6), Top(TRUE, 3)>>,
      <<JsNum(6), Top(TRUE, 1)>>,
      <<JsUndefined, Top(TRUE, 1)>> }

\* what the LLM call can produce: a network failure, a malformed envelope, text
\* without JSON, broken JSON, a JSON object, a JSON object in a ```json fence
LlmAnswers ==
    {LlmAnswer("ok", "json", p[1], p[2]) : p \in Payloads}
    \cup {LlmAnswer("ok", "fenced", JsNum(3), Top(TRUE, 3))}
    \cup {LlmAnswer(n, "json", JsUndefined, Top(FALSE, 0)) : n \in {"throw", "notok"}}
    \cup {LlmAnswer("ok", sh, JsUndefined, Top(FALSE, 0)) :
             sh \in {"nocandidates", "notext", "nojson", "badjson"}}

GenericFailText == "Analyse fehlgeschlagen. Bitte versuche es erneut."
InternalErrorText == "Ein interner Serverfehler ist aufgetreten."
LimitTextV50 == "Tageslimit von 2 Analysen erreicht."

\* the catch block at the end of handler: v3.3 answers error.message
Fail(q, errorMessage) ==
    Done(q, 500,
         ErrorBody(IF variant = "v3.3"
                   THEN (IF errorMessage # "" THEN errorMessage ELSE InternalErrorText)
                   ELSE GenericFailText))

\* v3.3 lines 77-83: the exempt check, then the cache lookup
AfterValidationLookupFirst(q) == Await(q, "cacheGet", {"cache.read"})
AfterValidationV33(q) ==
    IF IsExempt(q.url) THEN Done(q, 200, SpecialBody(ExemptNoteV33))
    ELSE Await(q, "cacheGet", {"cache.read"})

\* v3.3 lines 57-83
StartV33(r, m, u, ip) ==
    /\ variant = "v3.3"
    /\ req[r].pc = "idle"
    /\ LET url == IF u = NoUrl THEN u ELSE NormalizeString(u)
           q == Arrived(url, ip)
       IN req' = [req EXCEPT ![r] =
            IF MethodHandled(m) THEN MethodResponse(Arrived(u, ip), m)
            ELSE IF u = NoUrl \/ TrimIsEmpty(u)
                 THEN Done(Arrived(u, ip), 400, ErrorBody(NoUrlText))
            ELSE IF ~UrlParses(url) THEN Done(q, 400, ErrorBody(BadFormatText))
            ELSE AfterValidationV33(q)]
    /\ UNCHANGED <<variant, cache, rate, rateTtl>>
    /\ Tally

\* v7.2 lines 35-50
StartV72(r, m, u, ip) ==
    /\ variant = "v7.2"
    /\ req[r].pc = "idle"
    /\ LET url == Normalize(u)
           q == Arrived(url, ip)
       IN req' = [req EXCEPT ![r] =
            IF MethodHandled(m) THEN MethodResponse(q, m)
            ELSE IF ~Truthy(url) \/ ~IncludesDot(url)
                 THEN Done(q, 400, ErrorBody(InvalidUrlText))
            ELSE IF IsExempt(url) THEN Done(q, 200, SpecialBody(ExemptNote))
            ELSE Await(q, "cacheGet", {"cache.read"})]
    /\ UNCHANGED <<variant, cache, rate, rateTtl>>
    /\ Tally

\* v5.0 lines 36-52: up to `await kv.get(rateLimitKey)`
StartV50(r, m, u, ip) ==
    /\ variant = "v5.0"
    /\ req[r].pc = "idle"
    /\ LET url == Normalize(u)
           q == Arrived(url, ip)
       IN req' = [req EXCEPT ![r] =
            IF MethodHandled(m) THEN MethodResponse(q, m)
            ELSE Await(q, "rateGet", {"rate.read"})]
    /\ UNCHANGED <<variant, cache, rate, rateTtl>>
    /\ Tally

\* v5.0 lines 52-69: kv.get(rateLimitKey) settles
RateGetDone(r, ok) ==
    /\ variant = "v5.0"
    /\ req[r].pc = "rateGet"
    /\ LET userRequests == rate[req[r].ip]
           q == [req[r] EXCEPT !.userRequests = userRequests]
       IN req' = [req EXCEPT ![r] =
            IF ~ok THEN Unhandled(req[r], KvErrorText)
            ELSE IF OverLimit(userRequests)
                 THEN Done(q, 429,
                           Res({"limitReached", "message"}, FALSE, "",
                               Msg(LimitTextV50, <<>>, JsUndefined), <<>>, JsUndefined))
            ELSE IF q.url = NoUrl THEN Unhandled(q, TypeErrorText)
            ELSE IF IsExempt(q.url) THEN Done(q, 200, SpecialBody(ExemptNote))
            ELSE Await(q, "cacheGet", {"cache.read"})]
    /\ UNCHANGED <<variant, cache, rate, rateTtl>>
    /\ Tally

\* kv.get(cacheKey) settles: v3.3 lines 82-92, v5.0 lines 69-77, v7.2 lines 50-56
CacheGetDone(r, ok) ==
    /\ variant \in KvVariants
    /\ req[r].pc = "cacheGet"
    /\ LET q == req[r]
       IN req' = [req EXCEPT ![r] =
            IF ~ok
            THEN (IF variant = "v3.3" THEN Await(q, "fetch", {"page.fetch"})
                  ELSE Unhandled(q, KvErrorText))
            ELSE IF CacheHit(q.url)
            THEN (IF variant = "v5.0"
                  THEN Await([q EXCEPT !.fromCache = TRUE, !.final = cache[q.url].data],
                             "rateIncr", {"rate.write"})
                  ELSE Done([q EXCEPT !.fromCache = TRUE], 200, cache[q.url].data))
            ELSE Await(q, "fetch", {"page.fetch"})]
    /\ UNCHANGED <<variant, cache, rate, rateTtl>>
    /\ Tally

PageLoadTextV33 == "Die Webseite konnte nicht vollstaendig geladen werden."

\* the page content promise settles: getCleanedPageContent (v3.3 lines 16-49),
\* fetchPageContent (v5.0 lines 11-25, v7.2 lines 10-24; response.ok is not read)
FetchDoneLlm(r, outcome) ==
    /\ variant \in LlmVariants
    /\ req[r].pc = "fetch"
    /\ outcome \in FetchOutcomes
    /\ variant # "v3.3" => CanAnswer(req[r].url, outcome)
    /\ LET q == req[r]
           failed == IF variant = "v3.3" THEN outcome # "ok" ELSE outcome = "throw"
       IN req' = [req EXCEPT ![r] =
            IF failed THEN Fail(q, PageLoadTextV33)
            ELSE Await([q EXCEPT !.contentDone = TRUE], "llm", {"llm"})]
    /\ UNCHANGED <<variant, cache, rate, rateTtl>>
    /\ Tally

LowThresholdV33 == 4
LowThresholdV72 == 5
PositiveThresholdV72 == 2

\* v3.3 lines 147-173: the error message thrown while reading the answer, "" if none
ReadErrorV33(a) ==
    CASE a.net = "throw" -> "fetch failed"
      [] a.net = "notok" -> "Die KI-Analyse konnte nicht durchgefuehrt werden."
      [] a.shape \in {"nocandidates", "notext"} -> "Unerwartetes Format der KI-Antwort erhalten."
      [] a.shape \in {"nojson", "badjson"} -> "Die Antwort der KI hatte ein ungueltiges Format."
      [] OTHER -> ""

\* v3.3 lines 175-203
ComposeV33(a, url) ==
    LET totalFound == JsOrZero(a.total)
        topKillers == IF a.top.def THEN a.top.list ELSE <<>>
        topKillersToShow ==
            IF totalFound.n < LowThresholdV33 THEN Slice0(topKillers, 1)
            ELSE Slice0(topKillers, 2)
        message ==
            IF totalFound.n < LowThresholdV33
            THEN Msg("Gute Nachrichten! nur N gefunden. Der wichtigste ist:",
                     Hostname(url), totalFound)
            ELSE Msg("Analyse abgeschlossen. N identifiziert. Die gravierendsten sind:",
                     Hostname(url), totalFound)
    IN IF totalFound.n = 0
       THEN SpecialBody("Glueckwunsch! keine gravierenden Conversion-Killer gefunden.")
       ELSE AnalysisBody(message, topKillersToShow,
                         JsNum(Max(0, totalFound.n - Len(topKillersToShow))))

\* v5.0 lines 105-107: generateContent or JSON.parse throws
ReadFailsV50(a) == a.net # "ok" \/ a.shape # "json"

\* v5.0 lines 109-113; JSON.stringify drops a key whose value is undefined
ComposeV50(a, url) ==
    Res({"message", "remainingKillers"} \cup (IF a.top.def THEN {"topKillers"} ELSE {}),
        FALSE, "",
        Msg("aktuell N Conversion-Killer. Darunter:", Hostname(url), a.total),
        a.top.list, JsMax0(JsMinus(a.total, 2)))

\* v7.2 lines 99-117 and 135/138: an exception before or while composing
ReadFailsV72(a) ==
    \/ a.net # "ok"
    \/ a.shape \notin {"json", "fenced"}
    \/ (~JsLt(a.total, PositiveThresholdV72) /\ ~a.top.def)

\* v7.2 lines 119-146
ComposeV72(a, url) ==
    LET totalKillers == a.total
        topKillersToShow ==
            IF JsLt(totalKillers, LowThresholdV72) THEN Slice0(a.top.list, 1)
            ELSE Slice0(a.top.list, 2)
        messageText ==
            IF JsLt(totalKillers, LowThresholdV72)
            THEN Msg("aktuell N potenzielle Conversion-Killer. Der wichtigste ist:",
                     Hostname(url), totalKillers)
            ELSE Msg("aktuell N potenzielle Conversion-Killer. Darunter:",
                     Hostname(url), totalKillers)
    IN IF JsLt(totalKillers, PositiveThresholdV72)
       THEN PositiveHybrid(url)
       ELSE AnalysisBody(messageText, topKillersToShow,
                         JsMax0(JsMinus(totalKillers, Len(topKillersToShow))))

\* the result composed from the answer of the LLM service
ComposeLlm(a, url) ==
    CASE variant = "v3.3" -> ComposeV33(a, url)
      [] variant = "v5.0" -> ComposeV50(a, url)
      [] OTHER -> ComposeV72(a, url)

\* the local totalFound (v3.3 line 175) / totalKillers (v5.0, v7.2)
TotalOf(a) == IF variant = "v3.3" THEN JsOrZero(a.total) ELSE a.total

\* the LLM call settles: read the answer, compose, start kv.set(cacheKey, ...)
LlmDone(r, a) ==
    /\ variant \in LlmVariants
    /\ req[r].pc = "llm"
    /\ LET q == req[r]
           error == CASE variant = "v3.3" -> ReadErrorV33(a)
                      [] variant = "v5.0" -> IF ReadFailsV50(a) THEN "error" ELSE ""
                      [] OTHER -> IF ReadFailsV72(a) THEN "error" ELSE ""
       IN req' = [req EXCEPT ![r] =
            IF error # "" THEN Fail(q, error)
            ELSE Await([q EXCEPT !.totalFound = TotalOf(a), !.final = ComposeLlm(a, q.url)],
                       "cacheSet", {"cache.write"})]
    /\ UNCHANGED <<variant, cache, rate, rateTtl>>
    /\ Tally

\* the result that returns right after the cache write (v3.3 line 183, v7.2 line 128)
ReturnsAfterCacheSet(final) ==
    \/ variant = "v3.3" /\ final.isSpecialCase
    \/ variant = "v7.2" /\ final.message.tmpl = "Sehr gut! kaum Schwachstellen"

\* kv.set(cacheKey, result, { ex: 259200 }) settles
CacheSetDone(r, ok) ==
    /\ variant \in LlmVariants
    /\ req[r].pc = "cacheSet"
    /\ LET q == req[r]
       IN IF ~ok
          THEN req' = [req EXCEPT ![r] = Fail(q, KvErrorText)] /\ UNCHANGED cache
          ELSE /\ cache' = [cache EXCEPT ![q.url] = Entry(q.final)]
               /\ req' = [req EXCEPT ![r] =
                    IF ReturnsAfterCacheSet(q.final) THEN Done(q, 200, q.final)
                    ELSE IF variant = "v5.0" THEN Await(q, "rateIncr", {"rate.write"})
                    ELSE Await(q, "logSet", {"log.write"})]
    /\ UNCHANGED <<variant, rate, rateTtl>>
    /\ Tally

\* a kv call of v5.0 throws: outside the try block on the cache path (lines 71-72),
\* inside it after an analysis (lines 116-117)
KvThrows(q) == IF q.fromCache THEN Unhandled(q, KvErrorText) ELSE Fail(q, KvErrorText)

\* v5.0: kv.incr(rateLimitKey) settles (lines 71, 116)
RateIncrDone(r, ok) ==
    /\ variant = "v5.0"
    /\ req[r].pc = "rateIncr"
    /\ IF ~ok
       THEN req' = [req EXCEPT ![r] = KvThrows(req[r])] /\ UNCHANGED rate
       ELSE /\ rate' = [rate EXCEPT ![req[r].ip] = @ + 1]
            /\ req' = [req EXCEPT ![r] = Await(req[r], "rateExpire", {})]
    /\ UNCHANGED <<variant, cache, rateTtl>>
    /\ Tally

\* v5.0: kv.expire(rateLimitKey, 86400) settles (lines 72-73, 117-120)
RateExpireDone(r, ok) ==
    /\ variant = "v5.0"
    /\ req[r].pc = "rateExpire"
    /\ LET q == req[r]
       IN IF ~ok
          THEN req' = [req EXCEPT ![r] = KvThrows(q)] /\ UNCHANGED rateTtl
          ELSE /\ rateTtl' = [rateTtl EXCEPT ![q.ip] = rate[q.ip] > 0]
               /\ req' = [req EXCEPT ![r] =
                    IF q.fromCache THEN Done(q, 200, q.final)
                    ELSE Await(q, "logSet", {"log.write"})]
    /\ UNCHANGED <<variant, cache, rate>>
    /\ Tally

\* kv.set(`log:...`, ...) settles, then res.status(200).json(finalResult)
LogSetDone(r, ok) ==
    /\ variant \in LlmVariants
    /\ req[r].pc = "logSet"
    /\ req' = [req EXCEPT ![r] =
            IF ok THEN Done(req[r], 200, req[r].final) ELSE Fail(req[r], KvErrorText)]
    /\ UNCHANGED <<variant, cache, rate, rateTtl>>
    /\ Tally

(***************************************************************************)
(* The environment: time passes, the connection is over.                   *)
(***************************************************************************)
\* a cache entry outlives its time: the kv store drops the key after 259200 s;
\* v2.1 keeps the entry and stops using it after 7 days
CacheEntryExpires(k) ==
    /\ variant \in KvVariants \cup {"v2.1"}
    /\ CacheHit(k)
    /\ cache' = [cache EXCEPT ![k] =
                    IF variant = "v2.1" THEN [@ EXCEPT !.fresh = FALSE] ELSE NoEntry]
    /\ UNCHANGED <<variant, rate, rateTtl, req>>
    /\ Tally

\* the kv store drops a counter key 86400 s after kv.expire; the Map of v2.1
\* is never cleared
RateKeyExpires(i) ==
    /\ variant = "v5.0"
    /\ rateTtl[i]
    /\ rate' = [rate EXCEPT ![i] = 0]
    /\ rateTtl' = [rateTtl EXCEPT ![i] = FALSE]
    /\ UNCHANGED <<variant, cache, req>>
    /\ served' = [served EXCEPT ![i] = 0]
    /\ carried' = carried \cup {r \in Slots : req[r].ip = i /\ req[r].pc \notin {"idle", "done"}}
    /\ UNCHANGED first

\* the response has gone out; the slot takes the next request
Finish(r) ==
    /\ req[r].pc = "done"
    /\ req' = [req EXCEPT ![r] = Idle]
    /\ UNCHANGED <<variant, cache, rate, rateTtl>>
    /\ Tally

Next ==
    \/ \E r \in Slots, m \in Methods, u \in Urls, i \in Ips :
          \/ StartV10(r, m, u, i)
          \/ StartV11(r, m, u, i)
          \/ StartV21(r, m, u, i)
          \/ StartV33(r, m, u, i)
          \/ StartV50(r, m, u, i)
          \/ StartV72(r, m, u, i)
    \/ \E r \in Slots, o \in FetchOutcomes, p \in Pages, y \in ClockYears :
          PageSettlesHybrid(r, o, p, y)
    \/ \E r \in Slots, a \in PsAnswers, y \in ClockYears : PageSpeedSettles(r, a, y)
    \/ \E r \in Slots, o \in FetchOutcomes \cup {"timeout"}, p \in Pages :
          FetchSettlesV21(r, o, p)
    \/ \E r \in Slots, ok \in BOOLEAN :
          \/ RateGetDone(r, ok)
          \/ CacheGetDone(r, ok)
          \/ CacheSetDone(r, ok)
          \/ RateIncrDone(r, ok)
          \/ RateExpireDone(r, ok)
          \/ LogSetDone(r, ok)
    \/ \E r \in Slots, o \in FetchOutcomes : FetchDoneLlm(r, o)
    \/ \E r \in Slots, a \in LlmAnswers : LlmDone(r, a)
    \/ \E k \in CacheKeys : CacheEntryExpires(k)
    \/ \E i \in Ips : RateKeyExpires(i)
    \/ \E r \in Slots : Finish(r)

Spec == Init /\ [][Next]_vars

(***************************************************************************)
(* The rate-limited releases with requests in flight at the same time.     *)
(* The platform runs one invocation of handler per request; the awaits of  *)
(* different invocations interleave.  Inputs are kept to one page url and  *)
(* the exempt url, one page and two LLM payloads.                          *)
(***************************************************************************)
ConcurrentSlots == 2

ConcurrentUrls == { <<"site", ".", "com">>, <<"luqy.studio">> }
ConcurrentAnswers ==
    { LlmAnswer("ok", "json", JsNum(3), Top(TRUE, 3)),
      LlmAnswer("ok", "badjson", JsUndefined, Top(FALSE, 0)) }

InitConcurrent ==
    /\ variant \in RateLimitedVariants
    /\ cache = [k \in CacheKeys |-> NoEntry]
    /\ rate = [i \in Ips |-> 0]
    /\ rateTtl = [i \in Ips |-> FALSE]
    /\ req = [r \in 1..ConcurrentSlots |-> Idle]
    /\ served = [i \in Ips |-> 0]
    /\ carried = {}
    /\ first = [r \in DOMAIN req |-> "none"]

NextConcurrent ==
    \/ \E r \in Slots, u \in ConcurrentUrls, i \in Ips :
          \/ StartV21(r, "POST", u, i)
          \/ StartV50(r, "POST", u, i)
    \/ \E r \in Slots, o \in FetchOutcomes \cup {"timeout"} : FetchSettlesV21(r, o, PageWeak)
    \/ \E r \in Slots, ok \in BOOLEAN :
          \/ RateGetDone(r, ok)
          \/ CacheGetDone(r, ok)
          \/ CacheSetDone(r, ok)
          \/ RateIncrDone(r, ok)
          \/ RateExpireDone(r, ok)
          \/ LogSetDone(r, ok)
    \/ \E r \in Slots, o \in FetchOutcomes : FetchDoneLlm(r, o)
    \/ \E r \in Slots, a \in ConcurrentAnswers : LlmDone(r, a)
    \/ \E k \in CacheKeys : CacheEntryExpires(k)
    \/ \E i \in Ips : RateKeyExpires(i)
    \/ \E r \in Slots : Finish(r)

SpecConcurrent == InitConcurrent /\ [][NextConcurrent]_vars

(***************************************************************************)
(* What the environment guarantees.  The kv store drops a key whose TTL    *)
(* has run out; the abort timer of v2.1 (part_008:99-103) ends a pending   *)
(* fetch after 5000 ms; kv calls and the LLM call settle.  No release sets *)
(* a timer on the other page fetches or on the PageSpeed call, so nothing  *)
(* forces those to settle.                                                 *)
(***************************************************************************)
AbortTimerFires == \E r \in Slots : FetchSettlesV21(r, "timeout", PageEmpty)

Settles ==
    \/ \E r \in Slots, ok \in BOOLEAN :
          \/ RateGetDone(r, ok)
          \/ CacheGetDone(r, ok)
          \/ CacheSetDone(r, ok)
          \/ RateIncrDone(r, ok)
          \/ RateExpireDone(r, ok)
          \/ LogSetDone(r, ok)
    \/ \E r \in Slots, a \in LlmAnswers : LlmDone(r, a)

Fairness ==
    /\ \A i \in Ips : WF_vars(RateKeyExpires(i))
    /\ WF_vars(AbortTimerFires)
    /\ WF_vars(Settles)

SpecFair == Init /\ [][Next]_vars /\ Fairness

(***************************************************************************)
(* Vocabulary of the properties.                                           *)
(***************************************************************************)
\* the request in slot r has its response
Answered(r) == req[r].pc = "done"

\* q is a POST that got past the method checks
IsPost(q) == q.pc \notin {"idle"} /\ q.resp.kind # "end" /\ q.resp.status # 405

\* q is a POST for a url of the exempt domain
ExemptPost(q) == IsPost(q) /\ IsExempt(q.url)

\* slot r holds a 200 response that carries an analysis (fresh or cached)
AnalysisResponse(r) ==
    /\ Answered(r)
    /\ req[r].resp.kind = "json"
    /\ req[r].resp.status = 200
    /\ ~IsExempt(req[r].url)

\* ... composed by this request
FreshAnalysis(r) == AnalysisResponse(r) /\ ~req[r].fromCache

Body(r) == req[r].resp.body

\* the effects that look something up or analyse
AnalysisEffects == {"cache.read", "page.fetch", "pagespeed", "llm", "rules"}
NetworkEffects ==
    {"rate.read", "rate.write", "cache.read", "cache.write", "log.write",
     "page.fetch", "pagespeed", "llm"}

(***************************************************************************)
(* C1..C10                                                                 *)
(***************************************************************************)
\* C1: in every 200 analysis response the list topKillers has at most 2
\* entries and no more entries than the number of defects found.
C1_TopKillersBounded ==
    \A r \in Slots :
        FreshAnalysis(r) =>
            /\ Len(Body(r).topKillers) <= 2
            /\ IsNum(req[r].totalFound) => Len(Body(r).topKillers) <= req[r].totalFound.n

\* C2: remainingKillers of a 200 analysis response is
\* max(0, totalFound - |topKillers returned|), and never negative.
C2_RemainingMatchesList ==
    \A r \in Slots :
        (FreshAnalysis(r) /\ "remainingKillers" \in Body(r).fields) =>
            /\ IsNum(req[r].totalFound)
            /\ Body(r).remainingKillers =
                   JsNum(Max(0, req[r].totalFound.n - Len(Body(r).topKillers)))

\* C3: the count reported in the message equals the number of rules whose
\* trigger held for this request's markup and url.
C3_CountIsTriggeredRules ==
    \A r \in Slots :
        (FreshAnalysis(r) /\ IsNum(Body(r).message.count)) =>
            Body(r).message.count = JsNum(Len(req[r].triggered))

\* C4: when 0 defects were found the response is the special positive result
\* (isSpecialCase with a note) and shows no defect.
C4_ZeroFoundIsSpecial ==
    \A r \in Slots :
        (FreshAnalysis(r) /\ req[r].totalFound = JsNum(0)) =>
            /\ Body(r).isSpecialCase
            /\ "specialNote" \in Body(r).fields
            /\ Body(r).topKillers = <<>>

\* C5: with the low threshold 4, a count of 1, 2 or 3 shows exactly 1 defect
\* and remainingKillers is the count minus 1.
C5_BelowThresholdShowsOne ==
    \A r \in Slots :
        (/\ FreshAnalysis(r)
         /\ variant = "v3.3"
         /\ IsNum(req[r].totalFound)
         /\ req[r].totalFound.n \in 1..(LowThresholdV33 - 1)) =>
            /\ Len(Body(r).topKillers) = 1
            /\ Body(r).remainingKillers = JsNum(req[r].totalFound.n - 1)

\* C6: a count at or above the low threshold shows exactly 2 defects and
\* remainingKillers is the count minus 2, whatever list the backend returned.
C6_AtThresholdShowsTwo ==
    \A r \in Slots :
        (/\ FreshAnalysis(r)
         /\ variant \in {"v3.3", "v5.0"}
         /\ IsNum(req[r].totalFound)
         /\ req[r].totalFound.n >= LowThresholdV33) =>
            /\ Len(Body(r).topKillers) = 2
            /\ Body(r).remainingKillers = JsNum(req[r].totalFound.n - 2)

\* C7: a POST for an exempt url is always answered with the canned special
\* 200 result, whatever the counter and the cache hold.
C7_ExemptAlwaysSpecial ==
    \A r \in Slots :
        (Answered(r) /\ ExemptPost(req[r]) /\ req[r].resp.kind = "json") =>
            /\ req[r].resp.status = 200
            /\ Body(r).isSpecialCase
            /\ "specialNote" \in Body(r).fields

\* C8: the steps of an exempt request leave the cache and every counter as
\* they are, and the request looks nothing up, fetches nothing and evaluates
\* nothing.
C8_ExemptStep ==
    \A r \in Slots :
        (req'[r] # req[r] /\ (ExemptPost(req[r]) \/ ExemptPost(req'[r]))) =>
            /\ cache' = cache
            /\ rate' = rate
            /\ rateTtl' = rateTtl
C8_ExemptTouchesNothing ==
    /\ [](\A r \in Slots :
            ExemptPost(req[r]) =>
                req[r].io \cap (AnalysisEffects \cup {"cache.write", "rate.write"}) = {})
    /\ [][C8_ExemptStep]_vars

\* C8 witness: an exempt request was answered while the cache holds a result
C8_Witness ==
    \E r \in Slots :
        /\ Answered(r)
        /\ ExemptPost(req[r])
        /\ req[r].resp.status = 200
        /\ \E k \in CacheKeys : CacheHit(k)

\* C9: a POST whose url is missing, empty or unparsable is answered 400, and
\* nothing was sent over the network before.
C9_InvalidUrlRejectedOffline ==
    \A r \in Slots :
        (Answered(r) /\ IsPost(req[r]) /\ ~UrlParses(req[r].url)) =>
            /\ req[r].resp.kind = "json"
            /\ req[r].resp.status = 400
            /\ req[r].io \cap NetworkEffects = {}

\* C10 as stated: once the counter of a caller is 2, every further non-exempt
\* POST of that caller is answered 429.
C10_Step ==
    \A r \in Slots :
        (/\ variant \in RateLimitedVariants
         /\ req[r].pc \in {"idle", "rateGet"}
         /\ req'[r].pc \notin {"idle", "rateGet"}
         /\ IsPost(req'[r])
         /\ ~IsExempt(req'[r].url)
         /\ rate[req'[r].ip] >= RateLimit) =>
            req'[r].resp.status = 429
C11_AtMostTwoServed ==
    \A i \in Ips : served[i] <= RateLimit

\* C12: the quota is per period: a caller whose counter reached RateLimit
\* (and who is answered 429) finds the counter below RateLimit again once
\* a quota period has passed.  Refuted under SpecFair: the Map of v2.1 is
\* never cleared, and the key of v5.0 has no TTL when kv.expire failed.
C12_CounterReturns ==
    \A i \in Ips : (rate[i] >= RateLimit) ~> (rate[i] < RateLimit)

\* C13: a request whose cache lookup finds an unexpired entry for its
\* normalized url is answered 200 with exactly the stored result, and
\* starts no page fetch, PageSpeed call, LLM call or cache write.
\* Refuted: in v5.0 kv.incr and kv.expire follow the lookup outside the try
\* block, and their failure leaves the request without the 200.
FreshWork == {"page.fetch", "pagespeed", "llm", "cache.write"}
C13_Step ==
    \A r \in Slots :
        /\ (~req[r].fromCache /\ req'[r].fromCache) =>
              /\ CacheHit(req'[r].url)
              /\ IF req'[r].pc = "done"
                 THEN /\ req'[r].resp.kind = "json"
                      /\ req'[r].resp.status = 200
                      /\ req'[r].resp.body = cache[req'[r].url].data
                 ELSE req'[r].final = cache[req'[r].url].data
        /\ (req[r].fromCache /\ req[r].pc # "done" /\ req'[r].pc = "done") =>
              /\ req'[r].resp.kind = "json"
              /\ req'[r].resp.status = 200
              /\ req'[r].resp.body = req[r].final
        /\ req'[r].fromCache => req'[r].io \cap FreshWork = {}
C13_CacheHitAnswered == [][C13_Step]_vars

\* C14: the cache is not required to work: a request whose cache lookup
\* failed or found nothing goes on to the page fetch of the full analysis
\* and is not ended for that reason, in every caching release.  Refuted:
\* kv.get(cacheKey) of v5.0 and v7.2 is outside the try block.
C14_CacheOptional ==
    \A r \in Slots :
        ( /\ "cache.read" \in req[r].io
          /\ req[r].pc # "cacheGet"
          /\ ~req[r].fromCache )
        => "page.fetch" \in req[r].io

\* C15: hybrid releases: when the PageSpeed check fails (answer not OK,
\* fetch thrown, a field of the answer missing) it contributes no defect,
\* and the request completes with 200 from the markup rules alone.
\* Refuted: the catch of runPageSpeedChecks returns the defects pushed
\* before the missing field was read.
PsRequired(v) == IF v = "v1.0" THEN {"performance", "viewport"} ELSE PsAll
PsFailed(v, a) == a.net # "ok" \/ ~(PsRequired(v) \subseteq a.has)
C15_Step ==
    \A r \in Slots, a \in PsAnswers, y \in ClockYears :
        (PsFailed(variant, a) /\ PageSpeedSettles(r, a, y)) =>
            /\ req'[r].ps = <<>>
            /\ req'[r].pc = "done" =>
                  /\ req'[r].resp.status = 200
                  /\ req'[r].triggered =
                        runHeuristicChecks(variant, req'[r].content, req'[r].url, y)
C15_FailedPageSpeedAddsNothing == [][C15_Step]_vars

\* C16: every request that started its page fetch eventually has a
\* response, even if the target page (or PageSpeed) never answers: the
\* fetch is cancelled after a bounded time.  Refuted under SpecFair: only
\* v2.1 sets an abort timer; the other releases wait for the fetch for ever.
C16_FetchEnds ==
    \A r \in 1..NumSlots : (req[r].pc = "fetch") ~> (req[r].pc = "done")

\* C17: every exception raised while a POST is handled is caught by the
\* handler, so that each request ends with a response sent by the handler
\* (the generic 500 after an exception).  Refuted: url.includes, the kv
\* reads and the cached path run before the try block.
C17_NothingEscapes ==
    \A r \in Slots : Answered(r) => req[r].resp.kind # "unhandled"

\* C18: the body of a 500 never carries the text of the internal error:
\* every 500 of a release carries the one generic message of that release,
\* whatever the cause.  Refuted: the catch block of v3.3 answers
\* error.message, and v2.1 has a second text for the abort.
FailureText(v) ==
    IF v \in HybridVariants \cup {"v2.1"} THEN HybridErrorText
    ELSE IF v = "v3.3" THEN InternalErrorText
    ELSE GenericFailText
C18_OneFailureText ==
    \A r \in Slots :
        (Answered(r) /\ req[r].resp.kind = "json" /\ req[r].resp.status = 500)
        => Body(r) = ErrorBody(FailureText(variant))

\* C19: LLM path: when the answer of the LLM service carries no payload at
\* all the request gets the positive no-defects result; when the payload
\* is there but cannot be parsed the request gets an analysis failure; in
\* both cases the handler answers.  Refuted: v3.3, v5.0 and v7.2 answer
\* the failure for the missing payload as well.
AbsentShapes == {"nocandidates", "notext"}
UnparsableShapes == {"nojson", "badjson"}
NoDefectsResult(final) ==
    final.isSpecialCase \/ final.message.tmpl = "Sehr gut! kaum Schwachstellen"
C19_Step ==
    \A r \in Slots, a \in LlmAnswers :
        (a.net = "ok" /\ LlmDone(r, a)) =>
            /\ a.shape \in AbsentShapes =>
                  /\ req'[r].pc = "cacheSet"
                  /\ NoDefectsResult(req'[r].final)
            /\ a.shape \in UnparsableShapes =>
                  /\ req'[r].pc = "done"
                  /\ req'[r].resp.status = 500
            /\ req'[r].resp.kind # "unhandled"
C19_AbsentPositiveBrokenFails == [][C19_Step]_vars

\* C20: LLM path: a parsed payload that lacks totalFound or topKillers is
\* an upstream format error: the request is answered with the failure and
\* composes neither the no-defects result nor a report.  Refuted: v3.3
\* reads `totalFound || 0` and `topKillers || []`, v5.0 and v7.2 read the
\* count without a test.
LacksFields(a) == a.total = JsUndefined \/ ~a.top.def
C20_Step ==
    \A r \in Slots, a \in LlmAnswers :
        ( /\ a.net = "ok"
          /\ a.shape \in {"json", "fenced"}
          /\ LacksFields(a)
          /\ LlmDone(r, a) )
        => /\ req'[r].pc = "done"
           /\ req'[r].resp.status = 500
C20_MissingFieldsFail == [][C20_Step]_vars

\* C21: hybrid releases: the response (count, topKillers in their order,
\* remainingKillers) is the merge of the PageSpeed defects and the markup
\* defects in that fixed order, whichever of the two promises settled
\* first.
C21_OrderIrrelevant ==
    \A r \in Slots :
        ( /\ variant \in HybridVariants
          /\ Answered(r)
          /\ req[r].resp.status = 200
          /\ first[r] # "none" )
        => \E y \in ClockYears :
              /\ req[r].triggered =
                    req[r].ps \o runHeuristicChecks(variant, req[r].content, req[r].url, y)
              /\ Body(r) = ComposeHybrid(req[r], y).resp.body

\* a 200 of a hybrid release whose page arrived before the PageSpeed answer,
\* with defects from both sources
C21_Witness ==
    \E r \in Slots :
        /\ variant \in HybridVariants
        /\ Answered(r)
        /\ req[r].resp.status = 200
        /\ first[r] = "page"
        /\ Len(req[r].ps) >= 1
        /\ Len(req[r].triggered) > Len(req[r].ps)

\* C22: when more than 2 rules trigger, the displayed defects are the first
\* 2 triggered rules in the declaration order of the catalogue, in that
\* order.  v2.1: the two lowest catalogue positions whose check holds.
\* Hybrid releases: the first two of the defects in the order of the
\* checks (PageSpeed blocks, then the blocks of runHeuristicChecks).
TriggeredV21(content, url) ==
    {i \in 1..Len(conversionKillers) :
        KillerCheck(conversionKillers[i].id, content, url)}
LowestOf(S) == CHOOSE i \in S : \A j \in S : i <= j
HybridOrder(v) ==
    IF v = "v1.0"
    THEN << {"perf-critical", "perf-moderate"}, {"viewport"},
            {"h1-missing", "h1-weak"}, {"cta-missing", "cta-weak"},
            {"impressum"}, {"ssl"} >>
    ELSE << {"perf-critical", "perf-moderate"}, {"viewport"}, {"accessibility"},
            {"h1-missing", "h1-weak"}, {"title"}, {"meta-description"},
            {"cta-missing", "cta-generic"}, {"ssl"}, {"impressum"}, {"datenschutz"},
            {"copyright"}, {"social-proof"}, {"long-form"}, {"autoplay"} >>
HybridRank(v, k) ==
    LET S == {i \in 1..Len(HybridOrder(v)) : k.detail.tmpl \in HybridOrder(v)[i]}
    IN IF S = {} THEN 0 ELSE LowestOf(S)
C22_FirstTwoInCatalogueOrder ==
    \A r \in Slots :
        /\ ( /\ variant = "v2.1"
             /\ FreshAnalysis(r)
             /\ Cardinality(TriggeredV21(req[r].content, req[r].url)) > 2 )
           => LET T == TriggeredV21(req[r].content, req[r].url)
                  i1 == LowestOf(T)
                  i2 == LowestOf(T \ {i1})
              IN Body(r).topKillers =
                    <<conversionKillers[i1].title, conversionKillers[i2].title>>
        /\ ( /\ variant \in HybridVariants
             /\ FreshAnalysis(r)
             /\ Len(req[r].triggered) > 2 )
           => /\ Body(r).topKillers = <<req[r].triggered[1], req[r].triggered[2]>>
              /\ \A i \in 1..Len(req[r].triggered) :
                    /\ HybridRank(variant, req[r].triggered[i]) > 0
                    /\ i > 1 => HybridRank(variant, req[r].triggered[i - 1])
                                  < HybridRank(variant, req[r].triggered[i])

\* a fresh result of v2.1 for a page on which more than 2 rules trigger
C22_Witness ==
    \E r \in Slots :
        /\ variant = "v2.1"
        /\ FreshAnalysis(r)
        /\ Cardinality(TriggeredV21(req[r].content, req[r].url)) > 2
        /\ Len(Body(r).topKillers) = 2

\* C23: the defect list of the heuristic checks is a function of the markup
\* and the url only: two runs on the same markup and url give the same
\* defects, whatever the clock shows.  Refuted: the copyright rule of v1.1
\* compares the year on the page with new Date().getFullYear().
C23_DefectsIgnoreClock ==
    \A r \in Slots :
        (variant \in HybridVariants /\ req[r].contentDone)
        => \A y1, y2 \in ClockYears :
              runHeuristicChecks(variant, req[r].content, req[r].url, y1)
                 = runHeuristicChecks(variant, req[r].content, req[r].url, y2)

\* C24: the value-proposition rule triggers for every markup without an h1
\* tag, and does not trigger for a markup with an h1 whose cleaned text has
\* at least MinH1Length characters and no generic phrase, also when the
\* text spans several lines or sits in nested tags.  Refuted: `.` of the
\* pattern /<h1[^>]*>(.*?)<\/h1>/i matches no line break, so a heading
\* broken over two lines counts as missing.
HeadingTexts(content) ==
    {cleanText(SubSeq(content, i + 1, j - 1)) :
        <<i, j>> \in {p \in (1..Len(content)) \X (1..Len(content)) :
                        /\ p[1] < p[2]
                        /\ content[p[1]] \in H1OpenAnyCase
                        /\ content[p[2]] \in H1Close
                        /\ \A k \in (p[1] + 1)..(p[2] - 1) : content[k] \notin H1Close}}
GoodHeading(content) ==
    \E t \in HeadingTexts(content) :
        SumLen(t) >= MinH1Length /\ ~Has(LowerText(t), {"willkommen"})
ValuePropTriggers(v, content, url) ==
    IF v = "v2.1" THEN KillerCheck("VALUE_PROP", content, url)
    ELSE \E y \in ClockYears :
            \E i \in 1..Len(runHeuristicChecks(v, content, url, y)) :
                runHeuristicChecks(v, content, url, y)[i].detail.tmpl
                    \in {"h1-missing", "h1-weak"}
C24_ValuePropRule ==
    \A r \in Slots :
        (variant \in HybridVariants \cup {"v2.1"} /\ req[r].contentDone) =>
            /\ ~Has(req[r].content, H1OpenAnyCase)
                  => ValuePropTriggers(variant, req[r].content, req[r].url)
            /\ GoodHeading(req[r].content)
                  => ~ValuePropTriggers(variant, req[r].content, req[r].url)

\* C25: when the matched element of a rule yields no usable text, the
\* detail falls back to a generic phrasing: no detail interpolates an empty
\* excerpt.  Refuted: an h1 that holds only tags has a non-empty capture
\* and an empty cleaned text, which the h1 rule prints between the quotes.
ExcerptTemplates == {"h1-weak", "cta-generic", "cta-weak"}
C25_NoEmptyExcerpt ==
    \A r \in Slots :
        (variant \in HybridVariants /\ req[r].contentDone) =>
            \A y \in ClockYears :
                LET found == runHeuristicChecks(variant, req[r].content, req[r].url, y)
                IN \A i \in 1..Len(found) :
                      found[i].detail.tmpl \in ExcerptTemplates
                         => SumLen(found[i].detail.arg) > 0

\* C26: in the PageSpeed checks each sub-score or audit flag of the answer
\* (performance, viewport, and accessibility in v1.1) yields exactly one
\* defect when it is below its threshold and none otherwise.  Refuted: a
\* field missing earlier in the answer throws inside the try block, and the
\* sub-scores behind it are never looked at.
PsCount(ps, tmpls) == Cardinality({i \in 1..Len(ps) : ps[i].detail.tmpl \in tmpls})
PsExpected(present, below) == IF present /\ below THEN 1 ELSE 0
C26_Step ==
    \A r \in Slots, a \in PsAnswers, y \in ClockYears :
        (a.net = "ok" /\ PageSpeedSettles(r, a, y)) =>
            /\ PsCount(req'[r].ps, {"perf-critical", "perf-moderate"})
                  = PsExpected("performance" \in a.has, a.perf < PerfModerate)
            /\ PsCount(req'[r].ps, {"viewport"})
                  = PsExpected("viewport" \in a.has, a.viewport # 1)
            /\ variant = "v1.1" =>
                  PsCount(req'[r].ps, {"accessibility"})
                     = PsExpected("accessibility" \in a.has, a.access < AccessibilityLow)
C26_OneDefectPerSubScore == [][C26_Step]_vars

\* C27: after normalization every url that passes validation begins with
\* "http://" or "https://", also when the host name itself begins with the
\* letters "http".  Refuted: the test is url.startsWith('http'), so
\* "httpbin.org" is taken as it is, and the validation of the heuristic
\* releases only looks for a ".".
PassedValidation(q) ==
    /\ IsPost(q)
    /\ \/ q.io \cap {"cache.read", "page.fetch"} # {}
       \/ q.pc = "done" /\ q.resp.kind = "json" /\ q.resp.status = 200 /\ IsExempt(q.url)
\* v1.0 and v5.0 normalize but do not validate
ValidatingVariants == {"v1.1", "v2.1", "v3.3", "v7.2"}
C27_ValidUrlHasScheme ==
    \A r \in Slots :
        (variant \in ValidatingVariants /\ PassedValidation(req[r])) =>
            Head(req[r].url) \in Schemes

\* C28: the canned exempt result is returned only when the host of the
\* target url is the allow-listed domain; a url of another host that names
\* the domain in its path or query is analysed like any other.  Refuted:
\* the test is url.includes('luqy.studio') on the whole url.
ExemptHost == <<"luqy.studio">>
CannedExempt(r) ==
    /\ Answered(r)
    /\ req[r].resp.kind = "json"
    /\ req[r].resp.status = 200
    /\ Body(r).isSpecialCase
    /\ Body(r).specialNote \in {ExemptNote, ExemptNoteV33}
C28_ExemptOnlyForHost ==
    \A r \in Slots : CannedExempt(r) => Hostname(req[r].url) = ExemptHost

\* C29: in the rate-limited releases every 200 response with a result,
\* fresh or from the cache, raises the counter of the caller by exactly 1,
\* and nothing else raises it, so that after sequential requests the counter
\* is the number of such responses in the period.  Refuted: v5.0 increments
\* the counter before kv.expire and the log write, and answers 500 (or not
\* at all) when one of them throws.
Completes(r) == req[r].pc # "done" /\ req'[r].pc = "done"
AnalysisResponseNext(r) ==
    /\ req'[r].resp.kind = "json"
    /\ req'[r].resp.status = 200
    /\ ~IsExempt(req'[r].url)
\* the request that completes has raised the counter: v2.1 writes it in the
\* step that answers, v5.0 in the step that led to kv.expire
RaisedCounter(r) ==
    IF variant = "v2.1"
    THEN rate'[req'[r].ip] = rate[req'[r].ip] + 1
    ELSE req[r].pc \in {"rateExpire", "logSet"}
C29_Step ==
    variant \in RateLimitedVariants =>
        /\ \A i \in Ips : rate'[i] \in {rate[i], rate[i] + 1, 0}
        /\ \A r \in Slots :
              Completes(r) => (AnalysisResponseNext(r) <=> RaisedCounter(r))
C29_CounterCountsResponses == [][C29_Step]_vars

\* C30: a request that ends with a 400, 429 or 500 response has left the
\* result cache and the counter of its caller as they were; a request that
\* fails after composition has not stored its result.  Refuted: the LLM
\* releases write the cache first and can still fail in the awaits behind
\* it (log entry; in v5.0 also kv.incr and kv.expire).
\* q stands behind a kv.set(cacheKey, ...) of its own that succeeded
WroteCache(q) == ~q.fromCache /\ q.pc \in {"rateIncr", "rateExpire", "logSet"}
\* q stands behind a kv.incr of its own that succeeded
WroteCounter(q) == q.pc \in {"rateExpire"} \/ (variant = "v5.0" /\ q.pc = "logSet")
ErrorStatuses == {400, 429, 500}
C30_Step ==
    \A r \in Slots :
        (/\ Completes(r)
         /\ req'[r].resp.kind = "json"
         /\ req'[r].resp.status \in ErrorStatuses) =>
            /\ cache' = cache
            /\ rate' = rate
            /\ ~WroteCache(req[r])
            /\ ~WroteCounter(req[r])
C30_ErrorsLeaveNoTrace == [][C30_Step]_vars

=============================================================================
